---------------------------- MODULE Spec2Model ----------------------------
(***************************************************************************)
(* A model of the react-3d-dice engine (diceEngine.js) and of the Dice3D   *)
(* component (Dice3D.jsx).                                                 *)
(*                                                                         *)
(* Numbers.  The engine computes in IEEE doubles.  The model computes in   *)
(* fixed point: a coordinate c is the integer round(c * Unit).  A product  *)
(* of two coordinates therefore lives at scale Unit * Unit, and every      *)
(* tolerance of the source (0.999, -0.99, 0.001) is compared at the scale  *)
(* of the quantity it is compared with.  Division rounds to nearest,       *)
(* symmetrically about 0, so that Normalize(-v) = -Normalize(v).           *)
(***************************************************************************)
EXTENDS Integers, Sequences, FiniteSets, TLC

(***************************************************************************)
(* Fixed-point vectors (THREE.Vector3)                                     *)
(***************************************************************************)
Unit == 100 * 100

Abs(a) == IF a < 0 THEN -a ELSE a

Max2(a, b) == IF a >= b THEN a ELSE b

\* a / b for b > 0, rounded to nearest (Math-exact division up to 0.5 ulp)
RDiv(a, b) == IF a >= 0 THEN (a + (b \div 2)) \div b
                        ELSE -(((-a) + (b \div 2)) \div b)

RECURSIVE SqrtSearch(_, _, _)
SqrtSearch(n, lo, hi) ==
  IF lo >= hi THEN lo
  ELSE LET mid == (lo + hi + 1) \div 2
       IN IF mid * mid <= n THEN SqrtSearch(n, mid, hi)
                            ELSE SqrtSearch(n, lo, mid - 1)

\* the floor f of a square root of n, rounded up when n lies nearer (f + 1)^2
RoundRoot(n, f) == IF n - f * f > f THEN f + 1 ELSE f

\* Math.sqrt, rounded to the nearest integer; n < 2^31
ISqrt(n) == RoundRoot(n, SqrtSearch(n, 0, 46340))

VAdd(a, b) == <<a[1] + b[1], a[2] + b[2], a[3] + b[3]>>

VSub(a, b) == <<a[1] - b[1], a[2] - b[2], a[3] - b[3]>>

VNeg(a) == <<-a[1], -a[2], -a[3]>>

\* Vector3.divideScalar by a whole number k > 0
VDivInt(a, k) == <<RDiv(a[1], k), RDiv(a[2], k), RDiv(a[3], k)>>

\* Vector3.multiplyScalar by the fixed-point scalar s
VScale(a, s) == <<RDiv(a[1] * s, Unit), RDiv(a[2] * s, Unit), RDiv(a[3] * s, Unit)>>

\* Vector3.dot, at scale Unit * Unit
Dot(a, b) == a[1] * b[1] + a[2] * b[2] + a[3] * b[3]

\* Vector3.crossVectors, at scale Unit * Unit (only its direction is used)
Cross(a, b) == <<a[2] * b[3] - a[3] * b[2],
                 a[3] * b[1] - a[1] * b[3],
                 a[1] * b[2] - a[2] * b[1]>>

MaxAbs(a) == Max2(Abs(a[1]), Max2(Abs(a[2]), Abs(a[3])))

\* The largest component magnitude whose three squares still sum below 2^31
SafeMag == 250 * 100

\* v, whose largest component magnitude is m, brought near SafeMag
RescaleBy(v, m) ==
  IF m = 0 THEN v
  ELSE IF m > SafeMag
       THEN VDivInt(v, (m \div SafeMag) + 1)
       ELSE <<v[1] * (SafeMag \div m), v[2] * (SafeMag \div m), v[3] * (SafeMag \div m)>>

\* v rescaled (direction kept) so that its largest component is near SafeMag
Rescale(v) == RescaleBy(v, MaxAbs(v))

\* Vector3.divideScalar(len || 1) of a vector of length len, to unit length
DivideScalar(w, len) ==
  IF len = 0 THEN <<0, 0, 0>>
  ELSE <<RDiv(w[1] * Unit, len), RDiv(w[2] * Unit, len), RDiv(w[3] * Unit, len)>>

\* Vector3.length, of a rescaled vector
Length(w) == ISqrt(Dot(w, w))

\* Vector3.normalize: divideScalar(length() || 1); the zero vector stays zero
Normalize(v) == DivideScalar(Rescale(v), Length(Rescale(v)))

\* a.distanceTo(b) < tol, with tol in fixed point
Closer(a, b, tol) == Dot(VSub(a, b), VSub(a, b)) < tol * tol

(***************************************************************************)
(* Geometry (THREE.BufferGeometry): the position attribute is the sequence *)
(* pos of vertices; index is the sequence idx of 0-based vertex indices,   *)
(* or absent (indexed = FALSE) for non-indexed geometry.                   *)
(***************************************************************************)
\* The golden ratio t = (1 + sqrt 5) / 2 and r = 1 / t of THREE's polyhedra
GoldenT == 16180

GoldenR == 6180

\* THREE.PolyhedronGeometry(vertices, indices, radius, 0): non-indexed; each
\* index triple (a, b, c) is emitted as b, c, a, every vertex pushed onto the
\* sphere of the given radius
PolyhedronGeometry(vertices, indices, radius) ==
  LET nt == Len(indices) \div 3
      vert(i) == VScale(Normalize(vertices[i + 1]), radius)
      corner(k) == LET t == (k - 1) \div 3
                       c == (k - 1) % 3
                   IN indices[3 * t + 1 + ((c + 1) % 3)]
  IN [indexed |-> FALSE,
      pos |-> [k \in 1..(3 * nt) |-> vert(corner(k))],
      idx |-> <<>>]

TetrahedronVertices ==
  << <<Unit, Unit, Unit>>, <<-Unit, -Unit, Unit>>,
     <<-Unit, Unit, -Unit>>, <<Unit, -Unit, -Unit>> >>

TetrahedronIndices == <<2, 1, 0,  0, 3, 2,  1, 3, 0,  2, 3, 1>>

OctahedronVertices ==
  << <<Unit, 0, 0>>, <<-Unit, 0, 0>>, <<0, Unit, 0>>,
     <<0, -Unit, 0>>, <<0, 0, Unit>>, <<0, 0, -Unit>> >>

OctahedronIndices ==
  <<0, 2, 4,  0, 4, 3,  0, 3, 5,  0, 5, 2,
    1, 2, 5,  1, 5, 3,  1, 3, 4,  1, 4, 2>>

IcosahedronVertices ==
  LET t == GoldenT
      u == Unit
  IN << <<-u, t, 0>>, <<u, t, 0>>, <<-u, -t, 0>>, <<u, -t, 0>>,
        <<0, -u, t>>, <<0, u, t>>, <<0, -u, -t>>, <<0, u, -t>>,
        <<t, 0, -u>>, <<t, 0, u>>, <<-t, 0, -u>>, <<-t, 0, u>> >>

IcosahedronIndices ==
  <<0, 11, 5,  0, 5, 1,  0, 1, 7,  0, 7, 10,  0, 10, 11,
    1, 5, 9,  5, 11, 4,  11, 10, 2,  10, 7, 6,  7, 1, 8,
    3, 9, 4,  3, 4, 2,  3, 2, 6,  3, 6, 8,  3, 8, 9,
    4, 9, 5,  2, 4, 11,  6, 2, 10,  8, 6, 7,  9, 8, 1>>

DodecahedronVertices ==
  LET t == GoldenT
      r == GoldenR
      u == Unit
  IN << <<-u, -u, -u>>, <<-u, -u, u>>, <<-u, u, -u>>, <<-u, u, u>>,
        <<u, -u, -u>>, <<u, -u, u>>, <<u, u, -u>>, <<u, u, u>>,
        <<0, -r, -t>>, <<0, -r, t>>, <<0, r, -t>>, <<0, r, t>>,
        <<-r, -t, 0>>, <<-r, t, 0>>, <<r, -t, 0>>, <<r, t, 0>>,
        <<-t, 0, -r>>, <<t, 0, -r>>, <<-t, 0, r>>, <<t, 0, r>> >>

DodecahedronIndices ==
  <<3, 11, 7,  3, 7, 15,  3, 15, 13,  7, 19, 17,  7, 17, 6,  7, 6, 15,
    17, 4, 8,  17, 8, 10,  17, 10, 6,  8, 0, 16,  8, 16, 2,  8, 2, 10,
    0, 12, 1,  0, 1, 18,  0, 18, 16,  6, 10, 2,  6, 2, 13,  6, 13, 15,
    2, 16, 18,  2, 18, 3,  2, 3, 13,  18, 1, 9,  18, 9, 11,  18, 11, 3,
    4, 14, 12,  4, 12, 0,  4, 0, 8,  11, 9, 5,  11, 5, 19,  11, 19, 7,
    19, 5, 14,  19, 14, 4,  19, 4, 17,  1, 12, 14,  1, 14, 5,  1, 5, 9>>

\* One side of THREE.BoxGeometry (buildPlane with one segment each way): the
\* four corners in the order (ix, iy) = (0,0), (1,0), (0,1), (1,1); u, v, w
\* name the axes (1 = x, 2 = y, 3 = z) and half is the half edge, signed on w
BoxPlane(u, v, w, udir, vdir, half, whalf) ==
  LET corner(ix, iy) ==
        [a \in 1..3 |-> IF a = u THEN (2 * ix - 1) * half * udir
                        ELSE IF a = v THEN (2 * iy - 1) * half * vdir
                        ELSE whalf]
  IN << corner(0, 0), corner(1, 0), corner(0, 1), corner(1, 1) >>

\* THREE.BoxGeometry(s, s, s): indexed, six sides in the order
\* +x, -x, +y, -y, +z, -z, each side the two triangles (a, b, d), (b, c, d)
BoxGeometry(size) ==
  LET h == size \div 2
      planes == << BoxPlane(3, 2, 1, -1, -1, h, h),
                   BoxPlane(3, 2, 1, 1, -1, h, -h),
                   BoxPlane(1, 3, 2, 1, 1, h, h),
                   BoxPlane(1, 3, 2, 1, -1, h, -h),
                   BoxPlane(1, 2, 3, 1, -1, h, h),
                   BoxPlane(1, 2, 3, -1, -1, h, -h) >>
      local == <<0, 2, 1,  2, 3, 1>>
  IN [indexed |-> TRUE,
      pos |-> [k \in 1..24 |-> planes[((k - 1) \div 4) + 1][((k - 1) % 4) + 1]],
      idx |-> [k \in 1..36 |-> 4 * ((k - 1) \div 6) + local[((k - 1) % 6) + 1]]]

\* Math.cos and Math.sin of k * PI / 5, k = 0..9
Cos36 == <<10000, 8090, 3090, -3090, -8090, -10000, -8090, -3090, 3090, 8090>>

Sin36 == <<0, 5878, 9511, 9511, 5878, 0, -5878, -9511, -9511, -5878>>

\* createD10Geometry(radius): the pentagonal trapezohedron, non-indexed
createD10Geometry(radius) ==
  LET H == radius
      h == RDiv(H * (Unit - Cos36[2]), Unit + Cos36[2])
      r == RDiv(radius * 85, 100)
      top == <<0, H, 0>>
      bot == <<0, -H, 0>>
      ring(a, y) == <<RDiv(r * Cos36[(a % 10) + 1], Unit), y,
                      RDiv(r * Sin36[(a % 10) + 1], Unit)>>
      upper(k) == ring(2 * k, h)
      lower(k) == ring(2 * k + 1, -h)
      kite(k) == LET nk == (k + 1) % 5
                 IN << top, lower(k), upper(k),
                       top, upper(nk), lower(k),
                       bot, lower(k), upper(nk),
                       bot, upper(nk), lower(nk) >>
  IN [indexed |-> FALSE,
      pos |-> [i \in 1..60 |-> kite((i - 1) \div 12)[((i - 1) % 12) + 1]],
      idx |-> <<>>]

\* createGeometry(sides)
createGeometry(sides) ==
  CASE sides = 4 -> PolyhedronGeometry(TetrahedronVertices, TetrahedronIndices, 12000)
    [] sides = 6 -> BoxGeometry(17000)
    [] sides = 8 -> PolyhedronGeometry(OctahedronVertices, OctahedronIndices, 12000)
    [] sides = 10 -> createD10Geometry(12000)
    [] sides = 12 -> PolyhedronGeometry(DodecahedronVertices, DodecahedronIndices, 12000)
    [] sides = 20 -> PolyhedronGeometry(IcosahedronVertices, IcosahedronIndices, 12000)
    [] OTHER -> PolyhedronGeometry(IcosahedronVertices, IcosahedronIndices, 11400)

\* geomFaceCount(sides)
geomFaceCount(sides) ==
  IF sides \in {4, 6, 8, 10, 12} THEN sides ELSE 20

(***************************************************************************)
(* computeFaces: one record per logical face.  A record is                 *)
(* [centroid, normal, verts, valid]; valid = FALSE stands for a record     *)
(* whose centroid the source computed as NaN (a read past the end of the   *)
(* index buffer yields undefined, and 0 / 0 for an empty group).           *)
(***************************************************************************)
\* cl.normal.dot(n) > 0.999
SameNormal(a, b) == Dot(a, b) > 999 * (Unit \div 1000) * Unit

\* faces[i].normal.dot(faces[j].normal) < -0.99
AntiParallel(a, b) == Dot(a, b) < -(99 * (Unit \div 100) * Unit)

\* the 0.001 of the cluster sort and of the vertex de-duplication
Tolerance == Unit \div 1000

\* the unit normal of triangle (a, b, c), by the right-hand rule
TriNormal(a, b, c) == Normalize(Cross(VSub(b, a), VSub(c, a)))

RECURSIVE SumVecs(_)
SumVecs(vs) == IF vs = <<>> THEN <<0, 0, 0>>
               ELSE VAdd(Head(vs), SumVecs(Tail(vs)))

\* Math.round(totalTris / numFaces), numFaces > 0
TrisPerFace(totalTris, numFaces) == (2 * totalTris + numFaces) \div (2 * numFaces)

RECURSIVE DedupByIndex(_, _, _)
\* faceVerts of the indexed path: the corners idxs (0-based), first occurrence of
\* each index kept, in order
DedupByIndex(pos, idxs, seen) ==
  IF idxs = <<>> THEN <<>>
  ELSE IF Head(idxs) \in seen
       THEN DedupByIndex(pos, Tail(idxs), seen)
       ELSE <<pos[Head(idxs) + 1]>> \o DedupByIndex(pos, Tail(idxs), seen \cup {Head(idxs)})

\* the index entries first .. last - 1 (0-based) that the buffer holds in whole
\* triangles
IndexRun(idx, first, last) ==
  LET upto == IF last <= Len(idx) THEN last
              ELSE IF first <= Len(idx) THEN (Len(idx) \div 3) * 3 ELSE first
  IN [k \in 1..(IF upto > first THEN upto - first ELSE 0) |-> idx[first + k]]

\* centroid: the mean of the face's corners, repeated corners counted
Centroid(corners) ==
  IF Len(corners) = 0 THEN <<0, 0, 0>> ELSE VDivInt(SumVecs(corners), Len(corners))

\* the normal of the face's first triangle
FirstNormal(corners) ==
  IF Len(corners) >= 3 THEN TriNormal(corners[1], corners[2], corners[3]) ELSE <<0, 0, 0>>

\* n, negated when it points toward the origin as seen from c
Outward(n, c) == IF Dot(n, c) < 0 THEN VNeg(n) ELSE n

\* the record of the face whose index entries are idxs; ok: every entry read
\* exists and there is at least one
IndexedRecord(pos, idxs, corners, ok) ==
  [centroid |-> IF ok THEN Centroid(corners) ELSE <<0, 0, 0>>,
   normal |-> IF ok THEN Outward(FirstNormal(corners), Centroid(corners))
              ELSE FirstNormal(corners),
   verts |-> DedupByIndex(pos, idxs, {}),
   valid |-> ok]

\* the indexed path's face f (0-based) of computeFaces
IndexedFace(geo, f, tpf) ==
  IndexedRecord(geo.pos,
                IndexRun(geo.idx, 3 * f * tpf, 3 * (f + 1) * tpf),
                [k \in 1..Len(IndexRun(geo.idx, 3 * f * tpf, 3 * (f + 1) * tpf)) |->
                   geo.pos[IndexRun(geo.idx, 3 * f * tpf, 3 * (f + 1) * tpf)[k] + 1]],
                3 * (f + 1) * tpf <= Len(geo.idx) /\ tpf > 0)

\* a clustering loop whose test never succeeds: every triangle starts a cluster
FirstMatch_Never(clusters, n) == 0

\* the position of the first cluster whose normal matches n, or 0
FirstMatch(clusters, n) ==
  IF \E k \in 1..Len(clusters) : SameNormal(clusters[k].normal, n)
  THEN CHOOSE k \in 1..Len(clusters) :
         /\ SameNormal(clusters[k].normal, n)
         /\ \A j \in 1..(k - 1) : ~SameNormal(clusters[j].normal, n)
  ELSE 0

\* the unit normal of triangle (a, b, c), turned away from the origin
OutwardNormal(a, b, c) == Outward(TriNormal(a, b, c), VDivInt(VAdd(VAdd(a, b), c), 3))

\* the clusters once a triangle of normal n has joined cluster k, or (k = 0)
\* started its own
JoinCluster(clusters, n, tri, k) ==
  IF k = 0 THEN Append(clusters, [normal |-> n, verts |-> tri])
           ELSE [clusters EXCEPT ![k].verts = @ \o tri]

\* one turn of the clustering loop: triangle (a, b, c) joins the first cluster
\* whose normal matches its own, or starts a new one
AddTriangle(clusters, a, b, c) ==
  JoinCluster(clusters, OutwardNormal(a, b, c), <<a, b, c>>,
              FirstMatch(clusters, OutwardNormal(a, b, c)))

RECURSIVE ClusterRange(_, _, _, _)
\* the clusters once the clustering loop, come to triangle lo (1-based) with
\* `clusters`, has taken the triangles lo .. hi of pos in order.  The range is
\* worked as two halves, the first finished before the second is begun (its
\* result is bound as `half`), which keeps the evaluation shallow
ClusterRange(pos, lo, hi, clusters) ==
  IF lo > hi THEN clusters
  ELSE IF lo = hi
       THEN AddTriangle(clusters, pos[3 * lo - 2], pos[3 * lo - 1], pos[3 * lo])
       ELSE CHOOSE done \in {ClusterRange(pos, ((lo + hi) \div 2) + 1, hi, half) :
                              half \in {ClusterRange(pos, lo, (lo + hi) \div 2, clusters)}} :
              TRUE

\* the clusters after the clustering loop has taken every triangle of pos
ClusterTris(pos) == ClusterRange(pos, 1, Len(pos) \div 3, <<>>)

\* the comparator of clusters.sort: by normal x, then y, then z, 0.001 apart
ClusterCmp(an, bn) ==
  IF Abs(an[1] - bn[1]) > Tolerance THEN an[1] - bn[1]
  ELSE IF Abs(an[2] - bn[2]) > Tolerance THEN an[2] - bn[2]
  ELSE an[3] - bn[3]

RECURSIVE ClusterInsert(_, _)
ClusterInsert(sorted, x) ==
  IF sorted = <<>> THEN <<x>>
  ELSE LET y == sorted[Len(sorted)]
       IN IF ClusterCmp(y.normal, x.normal) > 0
          THEN Append(ClusterInsert(SubSeq(sorted, 1, Len(sorted) - 1), x), y)
          ELSE Append(sorted, x)

RECURSIVE ClusterSort(_)
\* Array.prototype.sort (stable) under ClusterCmp
ClusterSort(cs) ==
  IF cs = <<>> THEN <<>>
  ELSE ClusterInsert(ClusterSort(SubSeq(cs, 1, Len(cs) - 1)), cs[Len(cs)])

RECURSIVE DedupByDistance(_, _)
\* the vertices vs appended to `unique`, skipping any within 0.001 of one kept
DedupByDistance(vs, unique) ==
  IF vs = <<>> THEN unique
  ELSE IF \E k \in 1..Len(unique) : Closer(Head(vs), unique[k], Tolerance)
       THEN DedupByDistance(Tail(vs), unique)
       ELSE DedupByDistance(Tail(vs), Append(unique, Head(vs)))

ClusterFace(cl) ==
  [centroid |-> VDivInt(SumVecs(cl.verts), Len(cl.verts)),
   normal |-> cl.normal,
   verts |-> DedupByDistance(cl.verts, <<>>),
   valid |-> TRUE]

\* computeFaces(geometry, numFaces), numFaces >= 1
computeFaces(geo, numFaces) ==
  IF geo.indexed
  THEN LET tpf == TrisPerFace(Len(geo.idx) \div 3, numFaces)
       IN [f \in 1..numFaces |-> IndexedFace(geo, f - 1, tpf)]
  ELSE LET sorted == ClusterSort(ClusterTris(geo.pos))
       IN [k \in 1..Len(sorted) |-> ClusterFace(sorted[k])]

(***************************************************************************)
(* computeFaceNumbers.  faces is the sequence of face records (face index i*)
(* of the source is faces[i + 1]); pairs hold 0-based face indices, -1 for *)
(* "no partner"; the result is the sequence of display numbers.            *)
(***************************************************************************)
FACE_LABELED == {4, 6, 8, 10, 12, 20}

\* a table that numbers the cube's faces in generator order
D6_InOrder == <<1, 2, 3, 4, 5, 6>>

\* const D6_NUMBERS = [1, 6, 2, 5, 3, 4]
D6_NUMBERS == <<1, 6, 2, 5, 3, 4>>

Min(S) == CHOOSE x \in S : \A y \in S : x <= y

RECURSIVE FindPairs_PartnerFree(_, _, _, _)
\* the pairing loop without used.add(j): a partner stays free to be taken again
FindPairs_PartnerFree(faces, i, used, pairs) ==
  LET n == Len(faces)
  IN IF i >= n THEN pairs
     ELSE IF i \in used THEN FindPairs_PartnerFree(faces, i + 1, used, pairs)
     ELSE LET J == {j \in (i + 1)..(n - 1) :
                      /\ j \notin used
                      /\ AntiParallel(faces[i + 1].normal, faces[j + 1].normal)}
          IN IF J # {}
             THEN FindPairs_PartnerFree(faces, i + 1, used \cup {i},
                                        Append(pairs, <<i, Min(J)>>))
             ELSE FindPairs_PartnerFree(faces, i + 1, used \cup {i},
                                        Append(pairs, <<i, -1>>))

RECURSIVE FindPairs(_, _, _, _)
\* the pairing loop, from face i on
FindPairs(faces, i, used, pairs) ==
  LET n == Len(faces)
  IN IF i >= n THEN pairs
     ELSE IF i \in used THEN FindPairs(faces, i + 1, used, pairs)
     ELSE LET J == {j \in (i + 1)..(n - 1) :
                      /\ j \notin used
                      /\ AntiParallel(faces[i + 1].normal, faces[j + 1].normal)}
          IN IF J # {}
             THEN FindPairs(faces, i + 1, used \cup {i, Min(J)}, Append(pairs, <<i, Min(J)>>))
             ELSE FindPairs(faces, i + 1, used \cup {i}, Append(pairs, <<i, -1>>))

\* D10 pairs left in the order the pairing loop found them
TopFirst_AsFound(faces, p) == p

\* D10: the face with the larger centroid.y first
TopFirst(faces, p) ==
  IF p[2] >= 0 /\ faces[p[1] + 1].centroid[2] < faces[p[2] + 1].centroid[2]
  THEN <<p[2], p[1]>>
  ELSE p

\* where Math.atan2(z, x) lies: 0 for (-PI, 0), 1 for 0, 2 for (0, PI), 3 for PI
Atan2Arc(z, x) == IF z < 0 THEN 0
                  ELSE IF z > 0 THEN 2
                  ELSE IF x >= 0 THEN 1 ELSE 3

\* the sign of Math.atan2(z1, x1) - Math.atan2(z2, x2)
Atan2Cmp(z1, x1, z2, x2) ==
  LET a1 == Atan2Arc(z1, x1)
      a2 == Atan2Arc(z2, x2)
      cross == x1 * z2 - z1 * x2
  IN IF a1 # a2 THEN a1 - a2
     ELSE IF a1 \in {1, 3} THEN 0
     ELSE IF cross > 0 THEN -1 ELSE IF cross < 0 THEN 1 ELSE 0

\* the comparator of pairs.sort for D10: azimuth of the first face's centroid
PairCmp(faces, a, b) ==
  LET ca == faces[a[1] + 1].centroid
      cb == faces[b[1] + 1].centroid
  IN Atan2Cmp(ca[3], ca[1], cb[3], cb[1])

RECURSIVE PairInsert(_, _, _)
PairInsert(faces, sorted, x) ==
  IF sorted = <<>> THEN <<x>>
  ELSE LET y == sorted[Len(sorted)]
       IN IF PairCmp(faces, y, x) > 0
          THEN Append(PairInsert(faces, SubSeq(sorted, 1, Len(sorted) - 1), x), y)
          ELSE Append(sorted, x)

RECURSIVE PairSort(_, _)
\* Array.prototype.sort (stable) under PairCmp
PairSort(faces, ps) ==
  IF ps = <<>> THEN <<>>
  ELSE PairInsert(faces, PairSort(faces, SubSeq(ps, 1, Len(ps) - 1)), ps[Len(ps)])

\* the numbering with the partner's number taken from the 0-based k: the
\* partner of the face numbered k * step + 1 gets target - k * step
AssignNumbers_FromZero(n, pairs, target, step) ==
  LET entry(i) == CHOOSE k \in 1..Len(pairs) : pairs[k][1] = i \/ pairs[k][2] = i
      listed(i) == \E k \in 1..Len(pairs) : pairs[k][1] = i \/ pairs[k][2] = i
      value(i) == LET k == entry(i)
                  IN IF pairs[k][1] = i THEN (k - 1) * step + 1
                                        ELSE target - (k - 1) * step
  IN [i \in 1..n |-> IF listed(i - 1) THEN value(i - 1) ELSE 0]

\* numbers[pairs[k][0]] = first(k); numbers[pairs[k][1]] = target - first(k),
\* for k = 0 .. pairs.length - 1 in order, over an array of n zeros; first(k)
\* is k * step + 1
AssignNumbers(n, pairs, target, step) ==
  LET entry(i) == CHOOSE k \in 1..Len(pairs) : pairs[k][1] = i \/ pairs[k][2] = i
      listed(i) == \E k \in 1..Len(pairs) : pairs[k][1] = i \/ pairs[k][2] = i
      value(i) == LET k == entry(i)
                  IN IF pairs[k][1] = i THEN (k - 1) * step + 1
                                        ELSE target - ((k - 1) * step + 1)
  IN [i \in 1..n |-> IF listed(i - 1) THEN value(i - 1) ELSE 0]

\* the pair list computeFaceNumbers numbers from, D10 reordering included
NumberingPairs(faces, sides) ==
  LET pairs == FindPairs(faces, 0, {}, <<>>)
  IN IF sides = 10
     THEN PairSort(faces, [k \in 1..Len(pairs) |-> TopFirst(faces, pairs[k])])
     ELSE pairs

\* computeFaceNumbers with no fixed table: every die numbered by its pairs
computeFaceNumbers_ByPairs(faces, sides) ==
  AssignNumbers(Len(faces), NumberingPairs(faces, sides), sides + 1,
                IF sides = 10 THEN 2 ELSE 1)

\* computeFaceNumbers(faces, sides)
computeFaceNumbers(faces, sides) ==
  IF sides = 6 THEN D6_NUMBERS
  ELSE IF sides = 4 THEN <<1, 2, 3, 4>>
  ELSE AssignNumbers(Len(faces), NumberingPairs(faces, sides), sides + 1,
                     IF sides = 10 THEN 2 ELSE 1)

(***************************************************************************)
(* faceSettleQuat and settleQuat.  A rotation is held as the three rows of *)
(* its matrix: the quaternion the source returns is the conjugate of the   *)
(* one made from the basis (xAxis, faceUp, n), so it turns a vector v into *)
(* (xAxis . v, faceUp . v, n . v).  kind is "quat", "null" (the source's   *)
(* null) or "throw" (a TypeError: a property read of undefined).           *)
(***************************************************************************)
NullQuat == [kind |-> "null", rows |-> <<>>]

Thrown == [kind |-> "throw", rows |-> <<>>]

\* new THREE.Quaternion(): the identity
IdentityQuat == [kind |-> "quat", rows |-> << <<Unit, 0, 0>>, <<0, Unit, 0>>, <<0, 0, Unit>> >>]

\* v.addScaledVector(n, -v.dot(n)): v less its part along the unit vector n
ProjectOff(v, n) == VSub(v, VScale(n, RDiv(Dot(v, n), Unit)))

\* the vertex direction (from the centroid) with the largest dot on refUp, the
\* first one on a tie; refUp when the face has no vertex
SnapAmong(dirs, refUp) ==
  IF dirs = <<>> THEN refUp
  ELSE dirs[CHOOSE k \in 1..Len(dirs) :
              /\ \A j \in 1..Len(dirs) : Dot(dirs[j], refUp) <= Dot(dirs[k], refUp)
              /\ \A j \in 1..(k - 1) : Dot(dirs[j], refUp) < Dot(dirs[k], refUp)]

\* the unit directions from the face's centroid to its vertices
VertexDirs(face) ==
  [k \in 1..Len(face.verts) |-> Normalize(VSub(face.verts[k], face.centroid))]

SnapToVertex(face, refUp) == SnapAmong(VertexDirs(face), refUp)

\* ref without the switch: world Y whatever the normal
RefVector_WorldY(n) == <<0, Unit, 0>>

\* ref: world Y, or world Z when the unit normal n is within 0.99 of +-Y
RefVector(n) ==
  IF Abs(Dot(n, <<0, Unit, 0>>)) > 99 * (Unit \div 100) * Unit
  THEN <<0, 0, Unit>> ELSE <<0, Unit, 0>>

\* refUp: ref projected onto the face plane
RefUp(n) == Normalize(ProjectOff(RefVector(n), n))

\* D10: the pole (H = 1.2) on the face's side of the equator
Pole(face) == IF face.centroid[2] > 0 THEN <<0, 12000, 0>> ELSE <<0, -12000, 0>>

\* D10: the direction from the centroid to the pole, in the face plane
ToPole(face, n) == Normalize(ProjectOff(VSub(Pole(face), face.centroid), n))

\* faceUp: the in-plane direction that reads as "up" on the settled face
FaceUp(face, sides, n) ==
  IF sides = 10 THEN VNeg(ToPole(face, n))
  ELSE IF sides # 6 /\ Len(face.verts) >= 3 THEN SnapToVertex(face, RefUp(n))
  ELSE RefUp(n)

\* the inverse of the rotation whose basis is (faceUp x n, faceUp, n)
BasisInverse(faceUp, n) ==
  [kind |-> "quat", rows |-> <<Normalize(Cross(faceUp, n)), faceUp, n>>]

\* faceSettleQuat(face, sides), face a record of computeFaces
faceSettleQuat(face, sides) ==
  BasisInverse(FaceUp(face, sides, Normalize(face.normal)), Normalize(face.normal))

\* a numberToFace that takes the faces to be in the order of their numbers
NumberToFace_InOrder(faceNumbers) ==
  [num \in {faceNumbers[k] : k \in 1..Len(faceNumbers)} |-> num - 1]

\* faceNumbers.forEach((num, idx) => { numberToFace[num] = idx; }): a later
\* face takes the entry of an earlier one with the same number
NumberToFace(faceNumbers) ==
  [num \in {faceNumbers[k] : k \in 1..Len(faceNumbers)} |->
     CHOOSE idx \in 0..(Len(faceNumbers) - 1) :
       /\ faceNumbers[idx + 1] = num
       /\ \A j \in (idx + 1)..(Len(faceNumbers) - 1) : faceNumbers[j + 1] # num]

\* the userData of a die that is not labeled: no faces, no numberToFace
Unlabeled == [labeled |-> FALSE, faces |-> <<>>, faceNumbers |-> <<>>, numberToFace |-> <<>>]

\* mesh.userData = { faces, faceNumbers, numberToFace }
Labeled(faces, faceNumbers) ==
  [labeled |-> TRUE, faces |-> faces, faceNumbers |-> faceNumbers,
   numberToFace |-> NumberToFace(faceNumbers)]

\* the userData of a labeled die whose extracted faces are `faces`
NumberedFaces(faces, sides) == Labeled(faces, computeFaceNumbers(faces, sides))

\* the side counts the engine is tried with: the labeled dice and one other
EngineSides == FACE_LABELED \cup {7}

\* buildDieMesh: geo = createGeometry(sides); faces = computeFaces(geo, nf),
\* tabulated by side count
DieFaces == [s \in EngineSides |-> computeFaces(createGeometry(s), geomFaceCount(s))]

\* mesh.userData after buildDieMesh(sides, ...): faces, faceNumbers and
\* numberToFace for a labeled die, none of them (labeled = FALSE) otherwise
UserData(sides) ==
  IF sides \in FACE_LABELED THEN NumberedFaces(DieFaces[sides], sides) ELSE Unlabeled

\* UserData, tabulated by side count
DieData == [s \in EngineSides |-> UserData(s)]

\* settleQuat without its two returns of null: faceSettleQuat is handed
\* faces[undefined], and reading its normal raises
settleQuat_Unguarded(ud, result, sides) ==
  IF ~ud.labeled THEN Thrown
  ELSE IF result \notin DOMAIN ud.numberToFace THEN Thrown
  ELSE IF ud.numberToFace[result] < 0 \/ ud.numberToFace[result] >= Len(ud.faces)
       THEN Thrown
       ELSE faceSettleQuat(ud.faces[ud.numberToFace[result] + 1], sides)

\* settleQuat(mesh, result, sides), result a number, ud the mesh's userData
settleQuat(ud, result, sides) ==
  IF ~ud.labeled THEN NullQuat
  ELSE IF result \notin DOMAIN ud.numberToFace THEN NullQuat
  ELSE IF ud.numberToFace[result] < 0 \/ ud.numberToFace[result] >= Len(ud.faces)
       THEN NullQuat
       ELSE faceSettleQuat(ud.faces[ud.numberToFace[result] + 1], sides)

(***************************************************************************)
(* Bounds of the model                                                     *)
(***************************************************************************)
\* edits (swaps, overwrites) made to a die's face list before it is numbered
MaxEdits == 1

\* triangles dropped from the end of a die's geometry before faces are computed
MaxDrop == 2

\* the largest numFaces handed to computeFaces
MaxNumFaces == 20

\* the largest value asked of settleQuat, and the largest label number
MaxValue == 21

\* the largest number asked of getNumTexture and getDotTexture directly
MaxTexValue == 1

\* calls of clearTextureCache in one run
MaxClears == 1

\* textures made for one key between two calls of clearTextureCache
MaxMade == 2

\* dice shown by the component at once
MaxDice == 1

\* the clock's last reading, in tenths of a second
MaxTime == 12

(***************************************************************************)
(* State                                                                   *)
(***************************************************************************)
VARIABLES
  fn,        \* a call of computeFaceNumbers: its arguments and its result
  cf,        \* a call of computeFaces: its arguments and its result
  texCache,  \* the module's texCache: Map key -> texture
  disposed,  \* the textures on which dispose() has been called
  made,      \* per key, the textures created since the cache was last cleared
  served,    \* per key, the textures handed out since the cache was last cleared
  clears,    \* calls of clearTextureCache so far
  die,       \* the mesh a user of the engine built last
  ret,       \* the last call of settleQuat on that mesh: its argument and result
  props,     \* the props of the Dice3D instance at its last render
  S,         \* the instance's S.current
  now,       \* performance.now(), in tenths of a second
  crashed,   \* an effect of the instance raised an error
  host,      \* what the instance holds outside S.current: the browser's pending
             \* frame requests, the scene's dice, the meshes not yet disposed
  frame      \* what the last animation frame since the last render found and wrote

vars == <<fn, cf, texCache, disposed, made, served, clears, die, ret, props, S, now, crashed,
          host, frame>>

cacheVars == <<texCache, disposed, made, served, clears>>

callVars == <<fn, cf, die, ret>>

compVars == <<props, S, now, crashed, host, frame>>

(***************************************************************************)
(* The texture cache.  A Map key is a number (getNumTexture) or the string *)
(* "dot-<num>" (getDotTexture); a number never equals a string.  A texture *)
(* is named by the key it was made for, the number of cache clears before  *)
(* it and the number of textures made for that key since that clear.       *)
(***************************************************************************)
NumKey(num) == <<"number", num>>

\* a dot key without its "dot-" prefix: the number itself
DotKey_Unprefixed(num) == <<"number", num>>

DotKey(num) == <<"string", "dot-", num>>

Keys == {NumKey(n) : n \in 0..MaxValue} \cup {DotKey(n) : n \in 0..MaxValue}

\* no mesh built yet
NoDie == [built |-> FALSE, sides |-> 0, labels |-> <<>>]

NoCall == [called |-> FALSE, value |-> 0, out |-> NullQuat]

NoNumbering == [sides |-> 0, faces |-> <<>>, edits |-> 0, pairs |-> <<>>, numbers |-> <<>>,
                done |-> FALSE]

NoFaces == [base |-> 0, geo |-> [indexed |-> FALSE, pos |-> <<>>, idx |-> <<>>],
            dropped |-> 0, numFaces |-> 0, faces |-> <<>>, threw |-> FALSE, done |-> FALSE]

\* the props of an instance that has not rendered
NoProps == [sides |-> 0, results |-> <<>>, isRolling |-> FALSE, d6Style |-> "numbers"]

\* useRef({ scene: null, ..., meshes: [], gridPos: [], animId: null,
\*          phase: 'idle', settleStart: 0, settleData: [] })
\* count is results.length as the last rebuild of Effect 2 read it
FreshS == [scene |-> FALSE, meshes |-> <<>>, gridPos |-> <<>>, animId |-> 0,
           phase |-> "idle", settleStart |-> 0, settleData |-> <<>>, unmounted |-> FALSE,
           count |-> 0]

\* no frame requested, an empty scene, no mesh made
NoHost == [pending |-> {}, children |-> <<>>, undisposed |-> <<>>]

\* no frame has run since the last render
NoFrame == [phase |-> "none", p |-> 0, e |-> 0, quats |-> <<>>]

\* new THREE.CanvasTexture(c) for key, given the cache state
NewTexture(key, nmade, nclears) == [key |-> key, gen |-> nclears, serial |-> nmade[key]]

\* the cache after `if (texCache.has(key)) return ...; texCache.set(key, tex)`
CacheAfterGet(cache, nmade, nclears, key) ==
  IF key \in DOMAIN cache THEN cache
  ELSE [k \in DOMAIN cache \cup {key} |->
          IF k = key THEN NewTexture(key, nmade, nclears) ELSE cache[k]]

MadeAfterGet(cache, nmade, key) ==
  IF key \in DOMAIN cache THEN nmade ELSE [nmade EXCEPT ![key] = @ + 1]

\* getNumTexture(num) / getDotTexture(num), by its key: returns the cached
\* texture, or makes one, caches it and returns it
GetTexture(key) ==
  /\ key \in DOMAIN texCache \/ made[key] < MaxMade
  /\ texCache' = CacheAfterGet(texCache, made, clears, key)
  /\ made' = MadeAfterGet(texCache, made, key)
  /\ served' = [served EXCEPT ![key] = @ \cup {texCache'[key]}]

\* getNumTexture(num)
GetNumTexture(num) ==
  /\ GetTexture(NumKey(num))
  /\ UNCHANGED <<disposed, clears, callVars, compVars>>

\* getDotTexture(num)
GetDotTexture(num) ==
  /\ GetTexture(DotKey(num))
  /\ UNCHANGED <<disposed, clears, callVars, compVars>>

\* clearTextureCache()
ClearTextureCache ==
  /\ clears < MaxClears
  /\ disposed' = disposed \cup {texCache[k] : k \in DOMAIN texCache}
  /\ texCache' = <<>>
  /\ made' = [k \in Keys |-> 0]
  /\ served' = [k \in Keys |-> {}]
  /\ clears' = clears + 1
  /\ UNCHANGED <<callVars, compVars>>

(***************************************************************************)
(* buildDieMesh and settleQuat, as a caller of the engine uses them.  A    *)
(* mesh is held as its side count and the textures of its labels; its      *)
(* userData is DieData of its side count.                                  *)
(***************************************************************************)
\* the Map key of the label of face i (0-based) of a die
LabelKey(ud, i, useDots) ==
  IF useDots THEN DotKey(ud.faceNumbers[i + 1]) ELSE NumKey(ud.faceNumbers[i + 1])

RECURSIVE LabelLoop(_, _, _, _, _)
\* the label loop of buildDieMesh after its first i turns, started with the
\* cache `cache` and the creation counts `nmade`: the cache, the counts and the
\* textures of the labels made so far
LabelLoop(ud, useDots, i, cache, nmade) ==
  IF i = 0 THEN [cache |-> cache, made |-> nmade, labels |-> <<>>]
  ELSE LET before == LabelLoop(ud, useDots, i - 1, cache, nmade)
       IN IF i > Len(ud.faces) THEN before
          ELSE LET key == LabelKey(ud, i - 1, useDots)
                   after == CacheAfterGet(before.cache, before.made, clears, key)
               IN [cache |-> after,
                   made |-> MadeAfterGet(before.cache, before.made, key),
                   labels |-> Append(before.labels, after[key])]

\* what the label loop of a die with userData ud leaves
LabelsOf(ud, sides, d6Style, cache, nmade) ==
  IF ud.labeled
  THEN LabelLoop(ud, sides = 6 /\ d6Style = "dots", sides, cache, nmade)
  ELSE [cache |-> cache, made |-> nmade, labels |-> <<>>]

\* the mesh buildDieMesh returns, given what its label loop left
MeshOf(sides, loop) == [built |-> TRUE, sides |-> sides, labels |-> loop.labels]

\* what buildDieMesh leaves, given what its label loop left: the mesh and the
\* texture cache
ResultOf(sides, loop) ==
  [mesh |-> MeshOf(sides, loop), cache |-> loop.cache, made |-> loop.made]

\* what buildDieMesh(sides, color, d6Style) leaves, started with the cache
\* `cache` and the creation counts `nmade`
BuildResult(sides, d6Style, cache, nmade) ==
  ResultOf(sides, LabelsOf(DieData[sides], sides, d6Style, cache, nmade))

\* `served` once the textures `labels` have been handed out
ServedAfter(labels) ==
  [k \in Keys |-> served[k] \cup {labels[i] : i \in {j \in 1..Len(labels) : labels[j].key = k}}]

\* buildDieMesh(sides, color, d6Style) called by a user of the engine
BuildDieMesh(sides, d6Style) ==
  \E r \in {BuildResult(sides, d6Style, texCache, made)} :
     /\ \A k \in Keys : r.made[k] <= MaxMade
     /\ die' = r.mesh
     /\ texCache' = r.cache
     /\ made' = r.made
     /\ served' = ServedAfter(r.mesh.labels)
     /\ ret' = NoCall
     /\ UNCHANGED <<fn, cf, disposed, clears, compVars>>

\* settleQuat(mesh, result, sides) called on the mesh built last
SettleQuatCall(result) ==
  /\ die.built
  /\ ret' = [called |-> TRUE, value |-> result,
             out |-> settleQuat(DieData[die.sides], result, die.sides)]
  /\ UNCHANGED <<fn, cf, die, cacheVars, compVars>>

\* the module as loaded: an empty cache; no mesh built, nothing called
EngineInit ==
  /\ fn = NoNumbering
  /\ cf = NoFaces
  /\ texCache = <<>>
  /\ disposed = {}
  /\ made = [k \in Keys |-> 0]
  /\ served = [k \in Keys |-> {}]
  /\ clears = 0
  /\ die = NoDie
  /\ ret = NoCall
  /\ props = NoProps
  /\ S = FreshS
  /\ now = 0
  /\ crashed = FALSE
  /\ host = NoHost
  /\ frame = NoFrame

EngineNext ==
  \/ \E s \in EngineSides, st \in {"numbers", "dots"} : BuildDieMesh(s, st)
  \/ \E v \in 0..MaxValue : SettleQuatCall(v)

SpecEngine == EngineInit /\ [][EngineNext]_vars

(***************************************************************************)
(* The texture cache under direct requests, builds and clears              *)
(***************************************************************************)
\* the dice built while the cache is watched: the one with two label styles
CacheSides == {6}

CacheInit ==
  /\ fn = NoNumbering
  /\ cf = NoFaces
  /\ texCache = <<>>
  /\ disposed = {}
  /\ made = [k \in Keys |-> 0]
  /\ served = [k \in Keys |-> {}]
  /\ clears = 0
  /\ die = NoDie
  /\ ret = NoCall
  /\ props = NoProps
  /\ S = FreshS
  /\ now = 0
  /\ crashed = FALSE
  /\ host = NoHost
  /\ frame = NoFrame

CacheNext ==
  \/ \E n \in 1..MaxTexValue : GetNumTexture(n)
  \/ \E n \in 1..MaxTexValue : GetDotTexture(n)
  \/ ClearTextureCache
  \/ \E s \in CacheSides, st \in {"numbers", "dots"} : BuildDieMesh(s, st)

SpecCache == CacheInit /\ [][CacheNext]_vars

(***************************************************************************)
(* computeFaceNumbers on the face list of a die, as extracted or edited    *)
(***************************************************************************)
NumbersInit ==
  /\ fn \in {[sides |-> s, faces |-> DieFaces[s], edits |-> 0, pairs |-> <<>>,
              numbers |-> <<>>, done |-> FALSE] : s \in FACE_LABELED}
  /\ cf = NoFaces
  /\ texCache = <<>>
  /\ disposed = {}
  /\ made = [k \in Keys |-> 0]
  /\ served = [k \in Keys |-> {}]
  /\ clears = 0
  /\ die = NoDie
  /\ ret = NoCall
  /\ props = NoProps
  /\ S = FreshS
  /\ now = 0
  /\ crashed = FALSE
  /\ host = NoHost
  /\ frame = NoFrame

\* faces i and i + 1 (1-based) change places in the list
SwapFaces(i) ==
  /\ ~fn.done /\ fn.edits < MaxEdits
  /\ i \in 1..(Len(fn.faces) - 1)
  /\ fn' = [fn EXCEPT !.edits = @ + 1,
                      !.faces = [@ EXCEPT ![i] = fn.faces[i + 1], ![i + 1] = fn.faces[i]]]
  /\ UNCHANGED <<cf, die, ret, cacheVars, compVars>>

\* face i is replaced by a copy of the face after it (the first, for the last):
\* that face's direction now occurs twice and the old partner of face i is
\* left without one
OverwriteFace(i) ==
  /\ ~fn.done /\ fn.edits < MaxEdits
  /\ i \in 1..Len(fn.faces)
  /\ fn' = [fn EXCEPT !.edits = @ + 1,
                      !.faces = [@ EXCEPT ![i] = fn.faces[(i % Len(fn.faces)) + 1]]]
  /\ UNCHANGED <<cf, die, ret, cacheVars, compVars>>

\* computeFaceNumbers(faces, sides); pairs is the list its pairing loop leaves,
\* empty for the sides that return before the loop
CallComputeFaceNumbers ==
  /\ ~fn.done
  /\ fn' = [fn EXCEPT !.numbers = computeFaceNumbers(fn.faces, fn.sides),
                      !.pairs = IF fn.sides \in {4, 6} THEN <<>>
                                ELSE FindPairs(fn.faces, 0, {}, <<>>),
                      !.done = TRUE]
  /\ UNCHANGED <<cf, die, ret, cacheVars, compVars>>

NumbersNext ==
  \/ \E i \in 1..MaxNumFaces : SwapFaces(i)
  \/ \E i \in 1..MaxNumFaces : OverwriteFace(i)
  \/ CallComputeFaceNumbers

SpecNumbers == NumbersInit /\ [][NumbersNext]_vars

(***************************************************************************)
(* computeFaces on the geometry of a die, whole or cut short               *)
(***************************************************************************)
FacesInit ==
  /\ cf \in {[NoFaces EXCEPT !.base = s, !.geo = createGeometry(s)] : s \in FACE_LABELED}
  /\ fn = NoNumbering
  /\ texCache = <<>>
  /\ disposed = {}
  /\ made = [k \in Keys |-> 0]
  /\ served = [k \in Keys |-> {}]
  /\ clears = 0
  /\ die = NoDie
  /\ ret = NoCall
  /\ props = NoProps
  /\ S = FreshS
  /\ now = 0
  /\ crashed = FALSE
  /\ host = NoHost
  /\ frame = NoFrame

\* the last triangle is taken off the geometry
DropTriangle ==
  /\ ~cf.done /\ cf.dropped < MaxDrop
  /\ cf' = [cf EXCEPT !.dropped = @ + 1,
                      !.geo = IF cf.geo.indexed
                              THEN [@ EXCEPT !.idx = SubSeq(@, 1, Len(@) - 3)]
                              ELSE [@ EXCEPT !.pos = SubSeq(@, 1, Len(@) - 3)]]
  /\ UNCHANGED <<fn, die, ret, cacheVars, compVars>>

\* computeFaces(geometry, numFaces): the source has no throw on any path
CallComputeFaces(numFaces) ==
  /\ ~cf.done
  /\ cf' = [cf EXCEPT !.numFaces = numFaces,
                      !.faces = computeFaces(cf.geo, numFaces),
                      !.threw = FALSE,
                      !.done = TRUE]
  /\ UNCHANGED <<fn, die, ret, cacheVars, compVars>>

FacesNext ==
  \/ DropTriangle
  \/ \E nf \in 1..MaxNumFaces : CallComputeFaces(nf)

SpecFaces == FacesInit /\ [][FacesNext]_vars

(***************************************************************************)
(* The Dice3D component.  One instance; a render hands it new props and    *)
(* runs, in order, the effects whose dependencies changed.  rollTrigger    *)
(* and color matter only through whether they changed, and the results     *)
(* array, beside its content, through whether it is a new array.           *)
(***************************************************************************)
\* SETTLE_SECS, in tenths of a second
SETTLE_SECS == 6

\* the side counts the component is shown with: a labeled die and another
CompSides == {6, 7}

\* the values a result may take: below, within and above the faces of the die
ResultValues == {0, 3, 7}

RECURSIVE SeqsUpTo(_, _)
\* the sequences over V of length at most n
SeqsUpTo(V, n) ==
  IF n = 0 THEN {<<>>}
  ELSE SeqsUpTo(V, n - 1) \cup {Append(q, v) : q \in SeqsUpTo(V, n - 1), v \in V}

\* the label style the component is shown with
CompStyles == {"numbers"}

PropsSet == [sides : CompSides, results : SeqsUpTo(ResultValues, MaxDice),
             isRolling : BOOLEAN, d6Style : CompStyles]

\* new THREE.Quaternion().setFromEuler(new THREE.Euler(Math.random() * 0.3,
\* Math.random() * 0.3, 0)): some small tilt
RandomTilt == [kind |-> "tilt", rows |-> <<>>]

RECURSIVE BuildLoop(_, _, _, _, _)
\* the build loop of Effect 2 after i turns: the meshes pushed, and the cache
BuildLoop(sides, d6Style, i, cache, nmade) ==
  IF i = 0 THEN [meshes |-> <<>>, cache |-> cache, made |-> nmade]
  ELSE LET before == BuildLoop(sides, d6Style, i - 1, cache, nmade)
           r == BuildResult(sides, d6Style, before.cache, before.made)
       IN [meshes |-> Append(before.meshes, r.mesh), cache |-> r.cache, made |-> r.made]

\* s after an Effect 2 that leaves phase and settleData as they were
Rebuilt_KeepData(s, meshes) ==
  [s EXCEPT !.meshes = meshes,
            !.gridPos = [i \in 1..Len(meshes) |-> i]]

\* s after Effect 2 has disposed the old meshes and pushed the new ones
Rebuilt(s, meshes) ==
  [s EXCEPT !.meshes = meshes,
            !.gridPos = [i \in 1..Len(meshes) |-> i],
            !.settleData = <<>>,
            !.phase = "idle"]

\* { from, to }: to is q, or `default` when q is null; got records what
\* settleQuat returned, asked the value it was asked for and sides the side
\* count of the mesh
EntryOf(q, default, asked, sides) ==
  [to |-> IF q.kind = "quat" THEN q ELSE default, got |-> q.kind,
   asked |-> asked, sides |-> sides]

\* the value results[i] reads: undefined (no face has it) past the end
ResultAt(results, i) == IF i \in 1..Len(results) THEN results[i] ELSE -1

\* Effect 2: to: settleQuat(m, results[i], sides) || new THREE.Quaternion()
Entries2(meshes, p) ==
  [i \in 1..Len(meshes) |->
     EntryOf(settleQuat(DieData[meshes[i].sides], ResultAt(p.results, i), p.sides),
             IdentityQuat, ResultAt(p.results, i), meshes[i].sides)]

\* Effect 3: settleQuat when isNumbered && m.userData.faces, else (and when it
\* returned null) a random tilt
Entries3(meshes, p) ==
  [i \in 1..Len(meshes) |->
     IF p.sides \in FACE_LABELED /\ DieData[meshes[i].sides].labeled
     THEN EntryOf(settleQuat(DieData[meshes[i].sides], ResultAt(p.results, i), p.sides),
                  RandomTilt, ResultAt(p.results, i), meshes[i].sides)
     ELSE [to |-> RandomTilt, got |-> "uncalled",
           asked |-> ResultAt(p.results, i), sides |-> meshes[i].sides]]

\* s.phase = 'settling'; s.settleStart = performance.now(); s.settleData =
\* s.meshes.map(...): an error raised inside the map leaves settleData as it was
Settled(s, t, entries) ==
  IF \E i \in 1..Len(entries) : entries[i].got = "throw"
  THEN [S |-> [s EXCEPT !.phase = "settling", !.settleStart = t], crashed |-> TRUE]
  ELSE [S |-> [s EXCEPT !.phase = "settling", !.settleStart = t, !.settleData = entries],
        crashed |-> FALSE]

\* Effect 2 from the point where the build loop has run
AfterBuild(s, p, t, built) ==
  IF Len(p.results) > 0 /\ ~p.isRolling /\ p.sides \in FACE_LABELED
  THEN [c \in {"S", "crashed", "cache", "made"} |->
          CASE c = "cache" -> built.cache
            [] c = "made" -> built.made
            [] OTHER -> Settled(Rebuilt([s EXCEPT !.count = Len(p.results)], built.meshes), t,
                                  Entries2(built.meshes, p))[c]]
  ELSE [S |-> Rebuilt([s EXCEPT !.count = Len(p.results)], built.meshes), crashed |-> FALSE,
        cache |-> built.cache, made |-> built.made]

\* Effect 2 at time t: build meshes when the dice configuration changes
Effect2(s, p, t, cache, nmade) ==
  IF ~s.scene THEN [S |-> s, crashed |-> FALSE, cache |-> cache, made |-> nmade]
  ELSE AfterBuild(s, p, t, BuildLoop(p.sides, p.d6Style, Len(p.results), cache, nmade))

\* Effect 3 at time t: handle rolling state transitions
Effect3(s, p, t) ==
  IF p.isRolling
  THEN [S |-> [s EXCEPT !.phase = "spinning", !.settleData = <<>>], crashed |-> FALSE]
  ELSE IF s.phase = "spinning" /\ Len(p.results) > 0
       THEN Settled(s, t, Entries3(s.meshes, p))
       ELSE [S |-> s, crashed |-> FALSE]

\* the textures of the labels of the meshes, in order
RECURSIVE LabelsIn(_)
LabelsIn(meshes) ==
  IF meshes = <<>> THEN <<>> ELSE meshes[1].labels \o LabelsIn(Tail(meshes))

\* scene.remove(m), or the end of m's life: q without its first m
RECURSIVE Without(_, _)
Without(q, m) ==
  IF q = <<>> THEN <<>>
  ELSE IF q[1] = m THEN Tail(q) ELSE <<q[1]>> \o Without(Tail(q), m)

RECURSIVE RemoveEach(_, _)
\* s.meshes.forEach(m => ...) over q: each mesh of ms taken out of q once
RemoveEach(q, ms) ==
  IF ms = <<>> THEN q ELSE RemoveEach(Without(q, ms[1]), Tail(ms))

\* the scene and the undisposed meshes after Effect 2 removed and disposed the
\* meshes `old` and added the meshes `new`
HostAfter2(h, old, new) ==
  [h EXCEPT !.children = RemoveEach(@, old) \o new,
            !.undisposed = RemoveEach(@, old) \o new]

\* the last clock reading at which a render is taken: a later render would
\* start a settle the clock of the model cannot see the end of.  The clock
\* moves in steps of 3 and a frame's timestamp lies up to 1 behind it, so the
\* clock passes settleStart + SETTLE_SECS + 1 when started 3 earlier than that
LastRender == MaxTime - SETTLE_SECS - 3

\* a render with props p, started from S.current = s and host h: Effect 2 runs
\* when run2, then Effect 3 when run3; an effect that raises ends the commit
Commit(s, h, p, run2, run3) ==
  /\ now <= LastRender
  /\ \E a \in {IF run2 THEN Effect2(s, p, now, texCache, made)
                       ELSE [S |-> s, crashed |-> FALSE, cache |-> texCache, made |-> made]} :
    \E b \in {IF run3 /\ ~a.crashed THEN Effect3(a.S, p, now)
                                    ELSE [S |-> a.S, crashed |-> a.crashed]} :
      /\ \A k \in Keys : a.made[k] <= MaxMade
      /\ S' = b.S
      /\ crashed' = b.crashed
      /\ texCache' = a.cache
      /\ made' = a.made
      /\ served' = IF run2 THEN ServedAfter(LabelsIn(a.S.meshes)) ELSE served
      /\ props' = p
      /\ host' = IF run2 /\ s.scene THEN HostAfter2(h, s.meshes, a.S.meshes) ELSE h
      /\ frame' = NoFrame
      /\ UNCHANGED <<disposed, clears, callVars, now>>

\* the id requestAnimationFrame returns: one no request in `used` has.  Only
\* equality of ids matters, so the least free one stands for it
NextId(used) ==
  CHOOSE n \in 1..(Cardinality(used) + 1) :
    n \notin used /\ \A m \in 1..(n - 1) : m \in used

\* requestAnimationFrame(loop) whose id is dropped: s.animId keeps its value
RequestFrame_Unrecorded(s, h) ==
  [S |-> s, host |-> [h EXCEPT !.pending = @ \cup {NextId(h.pending \cup {s.animId})}]]

\* s.animId = requestAnimationFrame(loop)
RequestFrame(s, h) ==
  [S |-> [s EXCEPT !.animId = NextId(h.pending \cup {s.animId})],
   host |-> [h EXCEPT !.pending = @ \cup {NextId(h.pending \cup {s.animId})}]]

\* the first render: Effect 1 makes the scene and requests the first frame,
\* then Effect 2 and Effect 3 run
Mount(p) ==
  /\ ~S.scene /\ ~S.unmounted
  /\ \E r \in {RequestFrame([S EXCEPT !.scene = TRUE], host)} :
       Commit(r.S, r.host, p, TRUE, TRUE)

\* a later render with props p.  Effect 2 runs (run2) when one of its
\* dependencies changed: results.length, sides, isNumbered, d6Style, or else
\* hexColor or rollTrigger, which are free to change; Effect 3 runs (run3)
\* when isRolling, sides, isNumbered or the results array changed, the array
\* being free to be a new one with the old content
SetProps(p, run2, run3) ==
  /\ S.scene /\ ~crashed
  /\ (\/ Len(p.results) # Len(props.results)
      \/ p.sides # props.sides
      \/ p.d6Style # props.d6Style) => run2
  /\ (\/ p.results # props.results
      \/ p.isRolling # props.isRolling
      \/ p.sides # props.sides) => run3
  /\ Commit(S, host, p, run2, run3)

\* Effect 2 (run2) and Effect 3 (run3) run once more, with the props of the last
\* render, against the state the cleanup of Effect 1 left
LateEffects(run2, run3) ==
  /\ S.unmounted /\ ~crashed
  /\ run2 \/ run3
  /\ Commit(S, host, props, run2, run3)

\* p = Math.min(elapsed / SETTLE_SECS, 1) for elapsed = time - settleStart, as a
\* fixed-point fraction
Fraction(time, settleStart) ==
  IF RDiv((time - settleStart) * Unit, SETTLE_SECS) <= Unit
  THEN RDiv((time - settleStart) * Unit, SETTLE_SECS) ELSE Unit

\* x * y of two fixed-point fractions
FMul(x, y) == RDiv(x * y, Unit)

\* e = 1 - Math.pow(1 - p, 3)
Ease(p) == Unit - FMul(FMul(Unit - p, Unit - p), Unit - p)

\* the settle is over as soon as it has begun
Finished_AtOnce(p) == p >= 0

\* if (p >= 1) s.phase = 'idle'
Finished(p) == p >= Unit

\* m.quaternion.slerpQuaternions(d.from, d.to, e): d.to at e = 1, the
\* orientation the mesh had at e = 0, another one elsewhere
Slerp(to, e) ==
  IF e = Unit THEN to
  ELSE IF e = 0 THEN [kind |-> "from", rows |-> <<>>]
  ELSE [kind |-> "slerp", rows |-> <<>>]

\* what a frame with timestamp `time` finds and writes: in a settling frame the
\* fraction, its easing and the orientation given to each mesh that has an
\* entry of settleData
FrameOf(s, time) ==
  IF s.phase = "settling"
  THEN [phase |-> "settling",
        p |-> Fraction(time, s.settleStart),
        e |-> Ease(Fraction(time, s.settleStart)),
        quats |-> [i \in 1..Len(s.meshes) |->
                     IF i \in 1..Len(s.settleData)
                     THEN Slerp(s.settleData[i].to, Ease(Fraction(time, s.settleStart)))
                     ELSE [kind |-> "kept", rows |-> <<>>]]]
  ELSE [phase |-> s.phase, p |-> 0, e |-> 0, quats |-> <<>>]

\* the animation-frame callback `loop`, run for the pending request id, dt after
\* the last reading of the clock and with a timestamp lag behind it: asks for
\* the next frame, then spins, settles or idles the dice
Frame(id, dt, lag) ==
  /\ id \in host.pending
  /\ now + dt <= MaxTime
  /\ lag <= now + dt
  /\ now' = now + dt
  /\ \E r \in {RequestFrame(S, [host EXCEPT !.pending = @ \ {id}])} :
       /\ host' = r.host
       /\ frame' = FrameOf(S, now + dt - lag)
       /\ S' = IF S.phase = "settling" /\ Finished(Fraction(now + dt - lag, S.settleStart))
               THEN [r.S EXCEPT !.phase = "idle"] ELSE r.S
  /\ UNCHANGED <<props, crashed, cacheVars, callVars>>

\* the cleanup of Effect 1, on S.current
Cleaned(s) ==
  [s EXCEPT !.scene = FALSE, !.meshes = <<>>, !.gridPos = <<>>,
            !.animId = 0, !.unmounted = TRUE]

\* the cleanup of Effect 1, on the host: if (s.animId) cancelAnimationFrame(
\* s.animId), and each mesh of s.meshes removed from the scene and disposed
HostAfterCleanup(h, s) ==
  [h EXCEPT !.pending = @ \ {s.animId},
            !.children = RemoveEach(@, s.meshes),
            !.undisposed = RemoveEach(@, s.meshes)]

\* the component unmounts
Unmount ==
  /\ S.scene
  /\ S' = Cleaned(S)
  /\ host' = HostAfterCleanup(host, S)
  /\ UNCHANGED <<props, now, crashed, frame, cacheVars, callVars>>

\* an instance not yet rendered, and the engine module as loaded
Init ==
  /\ fn = NoNumbering
  /\ cf = NoFaces
  /\ texCache = <<>>
  /\ disposed = {}
  /\ made = [k \in Keys |-> 0]
  /\ served = [k \in Keys |-> {}]
  /\ clears = 0
  /\ die = NoDie
  /\ ret = NoCall
  /\ props = NoProps
  /\ S = FreshS
  /\ now = 0
  /\ crashed = FALSE
  /\ host = NoHost
  /\ frame = NoFrame

Next ==
  \/ \E p \in PropsSet : Mount(p)
  \/ \E p \in PropsSet, run2 \in BOOLEAN, run3 \in BOOLEAN : SetProps(p, run2, run3)
  \/ \E run2 \in BOOLEAN, run3 \in BOOLEAN : LateEffects(run2, run3)
  \/ \E id \in host.pending, dt \in {0, 3}, lag \in {0, 1} : Frame(id, dt, lag)
  \/ Unmount

Spec == Init /\ [][Next]_vars

\* a frame in which the clock has moved on
Tick == \E id \in host.pending, lag \in {0, 1} : Frame(id, 3, lag)

\* the component while frames keep firing and time passes: a pending frame
\* request is served, and each frame asks for the next
SpecLive == Init /\ [][Next]_vars /\ WF_vars(Tick)

\* the component together with a host application that uses the texture cache
\* of the engine beside it; frames come on time here
HostNext ==
  \/ \E p \in PropsSet : Mount(p)
  \/ \E p \in PropsSet, run2 \in BOOLEAN, run3 \in BOOLEAN : SetProps(p, run2, run3)
  \/ \E id \in host.pending : Frame(id, 3, 0)
  \/ Unmount
  \/ ClearTextureCache
  \/ \E n \in 1..MaxTexValue : GetNumTexture(n)
  \/ \E n \in 1..MaxTexValue : GetDotTexture(n)

SpecHost == Init /\ [][HostNext]_vars

(***************************************************************************)
(* Properties of computeFaceNumbers (SpecNumbers)                          *)
(***************************************************************************)
\* every face has exactly one anti-parallel partner among the faces
PairedOff(faces) ==
  \A i \in 1..Len(faces) :
    Cardinality({j \in 1..Len(faces) :
                   AntiParallel(faces[i].normal, faces[j].normal)}) = 1

\* C1: for a die of 6, 8, 10, 12 or 20 sides numbered as extracted, any two
\* faces with anti-parallel normals carry numbers that sum to sides + 1; on
\* the cube the faces come in the order +x, -x, +y, -y, +z, -z, so that the
\* table's positions (0,1), (2,3), (4,5) are the opposite pairs
OppositeFacesSum ==
  (fn.done /\ fn.edits = 0 /\ fn.sides \in {6, 8, 10, 12, 20}) =>
     /\ Len(fn.numbers) = Len(fn.faces)
     /\ \A i, j \in 1..Len(fn.faces) :
          AntiParallel(fn.faces[i].normal, fn.faces[j].normal) =>
            fn.numbers[i] + fn.numbers[j] = fn.sides + 1
     /\ fn.sides = 6 =>
          /\ Len(fn.faces) = 6
          /\ SameNormal(fn.faces[1].normal, <<Unit, 0, 0>>)
          /\ SameNormal(fn.faces[2].normal, <<-Unit, 0, 0>>)
          /\ SameNormal(fn.faces[3].normal, <<0, Unit, 0>>)
          /\ SameNormal(fn.faces[4].normal, <<0, -Unit, 0>>)
          /\ SameNormal(fn.faces[5].normal, <<0, 0, Unit>>)
          /\ SameNormal(fn.faces[6].normal, <<0, 0, -Unit>>)
          /\ \A k \in 0..2 : fn.numbers[2 * k + 1] + fn.numbers[2 * k + 2] = 7

\* the twenty-sided die numbered, two of its opposite faces summing to 21
OppositeFacesSumSeen ==
  /\ fn.done /\ fn.edits = 0 /\ fn.sides = 20
  /\ \E i, j \in 1..Len(fn.faces) :
       /\ AntiParallel(fn.faces[i].normal, fn.faces[j].normal)
       /\ fn.numbers[i] + fn.numbers[j] = 21

\* C2: when a labeled die's face list has exactly `sides` faces and (sides
\* other than 4) every face has its one opposite partner, the numbers are a
\* permutation of 1..sides: one per face, none repeated, none missing, no 0
NumbersArePermutation ==
  (/\ fn.done
   /\ fn.sides \in FACE_LABELED
   /\ Len(fn.faces) = fn.sides
   /\ fn.sides # 4 => PairedOff(fn.faces)) =>
     /\ Len(fn.numbers) = fn.sides
     /\ {fn.numbers[i] : i \in 1..Len(fn.numbers)} = 1..fn.sides

\* a twelve-sided die with two faces out of their extracted places, numbered
NumbersArePermutationSeen ==
  /\ fn.done /\ fn.sides = 12 /\ fn.edits = 1
  /\ fn.faces # DieFaces[12]
  /\ Len(fn.faces) = 12 /\ PairedOff(fn.faces)
  /\ {fn.numbers[i] : i \in 1..Len(fn.numbers)} = 1..12

\* C5: on the general path, a list of `sides` faces in which some face may
\* have no opposite partner is still numbered within 1..sides with no number
\* given twice, and two faces that are each other's only opposite sum to
\* sides + 1
UnpairedFacesHandled ==
  (fn.done /\ fn.sides \notin {4, 6} /\ Len(fn.faces) = fn.sides) =>
     /\ Len(fn.numbers) = fn.sides
     /\ \A i \in 1..fn.sides : fn.numbers[i] \in 1..fn.sides
     /\ \A i, j \in 1..fn.sides : i # j => fn.numbers[i] # fn.numbers[j]
     /\ \A i, j \in 1..fn.sides :
          (/\ AntiParallel(fn.faces[i].normal, fn.faces[j].normal)
           /\ \A k \in 1..fn.sides :
                /\ AntiParallel(fn.faces[i].normal, fn.faces[k].normal) => k = j
                /\ AntiParallel(fn.faces[j].normal, fn.faces[k].normal) => k = i)
          => fn.numbers[i] + fn.numbers[j] = fn.sides + 1

\* the faces of a ten-sided list that lie above their opposite partner
TopFaces(faces) ==
  {i \in 1..Len(faces) :
     \E j \in 1..Len(faces) : /\ AntiParallel(faces[i].normal, faces[j].normal)
                              /\ faces[i].centroid[2] > faces[j].centroid[2]}

\* C9: on the ten-sided die the upper face of each opposite pair carries an
\* odd number, the five of them 1, 3, 5, 7, 9 in ascending order of the
\* azimuth atan2(z, x) of their centroids, and the partner of the face
\* numbered k carries 11 - k
D10OddsOnTop ==
  (fn.done /\ fn.sides = 10 /\ Len(fn.faces) = 10 /\ PairedOff(fn.faces)) =>
     /\ Cardinality(TopFaces(fn.faces)) = 5
     /\ {fn.numbers[i] : i \in TopFaces(fn.faces)} = {1, 3, 5, 7, 9}
     /\ \A i \in TopFaces(fn.faces), j \in 1..10 :
          AntiParallel(fn.faces[i].normal, fn.faces[j].normal) =>
            fn.numbers[j] = 11 - fn.numbers[i]
     /\ \A a, b \in TopFaces(fn.faces) :
          fn.numbers[a] < fn.numbers[b] =>
            Atan2Cmp(fn.faces[a].centroid[3], fn.faces[a].centroid[1],
                     fn.faces[b].centroid[3], fn.faces[b].centroid[1]) < 0

\* the ten-sided die numbered, face 1 on top and face 10 beneath it
D10OddsOnTopSeen ==
  /\ fn.done /\ fn.sides = 10 /\ PairedOff(fn.faces)
  /\ \E i \in TopFaces(fn.faces), j \in 1..10 :
       /\ AntiParallel(fn.faces[i].normal, fn.faces[j].normal)
       /\ fn.numbers[i] = 1 /\ fn.numbers[j] = 10

\* C10: for sides = 6 the numbers are 1, 6, 2, 5, 3, 4 in the order of the
\* face list whatever the normals of the faces, and for sides = 4 they are
\* 1, 2, 3, 4
FixedTables ==
  /\ (fn.done /\ fn.sides = 6) => fn.numbers = <<1, 6, 2, 5, 3, 4>>
  /\ (fn.done /\ fn.sides = 4) => fn.numbers = <<1, 2, 3, 4>>

\* a cube whose first two faces are no longer opposite, numbered by the table
FixedTablesSeen ==
  /\ fn.done /\ fn.sides = 6 /\ fn.edits = 1
  /\ ~AntiParallel(fn.faces[1].normal, fn.faces[2].normal)
  /\ fn.numbers = <<1, 6, 2, 5, 3, 4>>

(***************************************************************************)
(* Properties of buildDieMesh and settleQuat (SpecEngine)                  *)
(***************************************************************************)
\* C3: on a labeled die built by buildDieMesh every value v of 1..sides has
\* an entry in numberToFace, the face it names is numbered v and carries the
\* label of v, and settleQuat(mesh, v, sides) returns a rotation, not null:
\* the one faceSettleQuat gives for that face
SettleRoundTrip ==
  (die.built /\ die.sides \in FACE_LABELED) =>
     /\ \A v \in 1..die.sides :
          /\ v \in DOMAIN DieData[die.sides].numberToFace
          /\ DieData[die.sides].numberToFace[v] \in 0..(die.sides - 1)
          /\ DieData[die.sides].faceNumbers[DieData[die.sides].numberToFace[v] + 1] = v
          /\ die.labels[DieData[die.sides].numberToFace[v] + 1].key
               \in {NumKey(v), DotKey(v)}
     /\ (ret.called /\ ret.value \in 1..die.sides) =>
          /\ ret.out.kind = "quat"
          /\ ret.out = faceSettleQuat(
                         DieData[die.sides].faces[
                           DieData[die.sides].numberToFace[ret.value] + 1],
                         die.sides)

\* settleQuat asked for the 10 of a ten-sided die, and answering
SettleRoundTripSeen ==
  /\ die.built /\ die.sides = 10
  /\ ret.called /\ ret.value = 10 /\ ret.out.kind = "quat"

(***************************************************************************)
(* Properties of computeFaces (SpecFaces)                                  *)
(***************************************************************************)
\* the triangles of a geometry
TriCount(geo) == IF geo.indexed THEN Len(geo.idx) \div 3 ELSE Len(geo.pos) \div 3

\* the faces whose normal triangle t (1-based) of a non-indexed geometry has
FacesMatching(geo, faces, t) ==
  {f \in 1..Len(faces) :
     SameNormal(faces[f].normal,
                OutwardNormal(geo.pos[3 * t - 2], geo.pos[3 * t - 1], geo.pos[3 * t]))}

\* no two faces have the same normal, within the tolerance of the clustering
DistinctNormals(faces) ==
  \A i, j \in 1..Len(faces) : i < j => ~SameNormal(faces[i].normal, faces[j].normal)

\* every triangle belongs to exactly one face: on the indexed path to the one
\* group of tpf consecutive triangles it falls in, which must be one of the
\* numFaces groups read; on the clustering path to the one face of its normal
InOneFace(geo, numFaces, faces) ==
  IF geo.indexed
  THEN \A t \in 0..(TriCount(geo) - 1) :
         /\ TrisPerFace(TriCount(geo), numFaces) > 0
         /\ t \div TrisPerFace(TriCount(geo), numFaces) < numFaces
  ELSE \A t \in 1..TriCount(geo) : Cardinality(FacesMatching(geo, faces, t)) = 1

MalformedFailsFast ==
  (cf.done /\ cf.geo.indexed /\ TriCount(cf.geo) % cf.numFaces # 0) =>
     cf.threw /\ cf.faces = <<>>

(***************************************************************************)
(* Properties of the texture cache (SpecCache)                             *)
(***************************************************************************)
\* C8: between two clears every request for a key is answered with the same
\* texture, the number key and the dot key of a value never share a texture,
\* no texture in the cache has been disposed of, and clearTextureCache
\* disposes of every texture in the cache and leaves the cache empty
OneImagePerKey ==
  /\ [](\A k \in Keys : Cardinality(served[k]) <= 1)
  /\ [](\A n \in 0..MaxValue : served[NumKey(n)] \cap served[DotKey(n)] = {})
  /\ [](\A k \in DOMAIN texCache : /\ texCache[k] \notin disposed
                                   /\ served[k] \subseteq {texCache[k]})
  /\ [][clears' # clears =>
          /\ texCache' = <<>>
          /\ \A k \in DOMAIN texCache : texCache[k] \in disposed']_vars

\* after a clear that disposed of textures, the number 1 and the one-dot
\* face are both in the cache again, each asked for and served
OneImagePerKeySeen ==
  /\ clears = 1 /\ disposed # {}
  /\ NumKey(1) \in DOMAIN texCache /\ DotKey(1) \in DOMAIN texCache
  /\ served[NumKey(1)] = {texCache[NumKey(1)]}
  /\ served[DotKey(1)] = {texCache[DotKey(1)]}

(***************************************************************************)
(* Properties of the component's settleData (Spec)                         *)
(***************************************************************************)
\* the value v has no face on a die of `sides` sides: the die is not
\* labeled, or v is not one of its numbers
Unmapped(sides, v) == sides \notin FACE_LABELED \/ v \notin 1..sides

PairingIsPartition ==
  (fn.done /\ fn.sides \notin {4, 6}) =>
     /\ \A i \in 0..(Len(fn.faces) - 1) :
          Cardinality({k \in 1..Len(fn.pairs) :
                         fn.pairs[k][1] = i \/ fn.pairs[k][2] = i}) = 1
     /\ \A k \in 1..Len(fn.pairs) :
          /\ fn.pairs[k][1] \in 0..(Len(fn.faces) - 1)
          /\ fn.pairs[k][2] \in (-1)..(Len(fn.faces) - 1)
          /\ fn.pairs[k][2] # fn.pairs[k][1]
          /\ fn.pairs[k][2] >= 0 =>
               AntiParallel(fn.faces[fn.pairs[k][1] + 1].normal,
                            fn.faces[fn.pairs[k][2] + 1].normal)

\* an eight-face list with one face overwritten, paired: some faces in pairs,
\* some alone
PairingIsPartitionSeen ==
  /\ fn.done /\ fn.sides = 8 /\ fn.edits = 1
  /\ \E k \in 1..Len(fn.pairs) : fn.pairs[k][2] = -1
  /\ \E k \in 1..Len(fn.pairs) : fn.pairs[k][2] >= 0

(***************************************************************************)
(* C12.  The elapsed fraction of a settling frame                          *)
(***************************************************************************)
\* C12: in every settling frame the elapsed fraction p that drives the
\* interpolation lies in [0, 1], whatever the frame's timestamp is relative to
\* the recorded settle start, a timestamp earlier than the start included.
FractionInRange ==
  frame.phase = "settling" => (0 <= frame.p /\ frame.p <= Unit)

(***************************************************************************)
(* C13.  faceSettleQuat returns a rotation                                 *)
(***************************************************************************)
\* the rotation with rows `rows` applied to v, at scale Unit * Unit
Turned(rows, v) == <<Dot(rows[1], v), Dot(rows[2], v), Dot(rows[3], v)>>

\* a and b, at scale Unit * Unit, differ by less than 0.001
Near(a, b) == Abs(a - b) < (Unit \div 1000) * Unit

\* the face settleQuat resolved the value asked last to
FaceAsked == DieData[die.sides].faces[DieData[die.sides].numberToFace[ret.value] + 1]

\* C13: for every extracted face of the dice of 4, 6, 8, 10, 12 and 20 sides
\* faceSettleQuat returns a unit rotation: its right, up and normal axes are
\* orthonormal and right-handed, it takes the face's outward normal to +Z and
\* the face-up direction to +Y; this holds as well for the faces whose normal
\* is (anti)parallel to world up, where the reference is (0, 0, 1)
SettleQuatIsRotation ==
  (die.built /\ ret.called /\ ret.out.kind = "quat") =>
     /\ \A i, j \in 1..3 :
          Near(Dot(ret.out.rows[i], ret.out.rows[j]), IF i = j THEN Unit * Unit ELSE 0)
     /\ Dot(VDivInt(Cross(ret.out.rows[1], ret.out.rows[2]), Unit), ret.out.rows[3]) > 0
     /\ \A k \in 1..3 :
          /\ Near(Turned(ret.out.rows, Normalize(FaceAsked.normal))[k],
                  IF k = 3 THEN Unit * Unit ELSE 0)
          /\ Near(Turned(ret.out.rows,
                         FaceUp(FaceAsked, die.sides, Normalize(FaceAsked.normal)))[k],
                  IF k = 2 THEN Unit * Unit ELSE 0)

\* settleQuat answering for a face of the cube whose normal is along world up
SettleQuatIsRotationSeen ==
  /\ die.built /\ die.sides = 6
  /\ ret.called /\ ret.out.kind = "quat"
  /\ Abs(Normalize(FaceAsked.normal)[2]) > 99 * (Unit \div 100)
  /\ ret.out.rows[3] = Normalize(FaceAsked.normal)

(***************************************************************************)
(* C14.  The dice settle on the results                                    *)
(***************************************************************************)
\* C14: for a labeled die, whatever the prop changes before, once isRolling is
\* false with non-empty results and only frames follow, the component comes to
\* rest in idle with every die i holding as settle target the orientation of
\* the face numbered results[i], also after a rebuild made while isRolling was
\* true.  Frames change neither props nor settleData and leave idle to no other
\* phase, so the rest state is reached exactly when no idle state with such
\* props holds other targets.
SettlesOnResults ==
  (/\ S.scene /\ ~crashed
   /\ props.sides \in FACE_LABELED
   /\ ~props.isRolling
   /\ props.results # <<>>
   /\ \A i \in 1..Len(props.results) : props.results[i] \in 1..props.sides
   /\ S.phase = "idle")
  => /\ Len(S.settleData) = Len(props.results)
     /\ \A i \in 1..Len(props.results) :
          S.settleData[i].to = settleQuat(DieData[props.sides], props.results[i], props.sides)

(***************************************************************************)
(* C15.  The end of a settle (SpecLive)                                    *)
(***************************************************************************)
\* C15: once the phase is settling, and as long as the component is mounted,
\* frames that keep firing bring the phase out of settling; a frame takes the
\* phase from settling to idle only when its elapsed fraction has reached 1,
\* and in that frame every die's orientation is its settle target `to`; the
\* phase goes from settling to spinning only in a render in which isRolling
\* becomes true.
SettleEnds ==
  /\ [][(/\ S.phase = "settling" /\ S'.phase = "idle"
         /\ host'.pending # host.pending)
        => /\ frame'.phase = "settling" /\ frame'.p = Unit
           /\ Len(frame'.quats) = Len(S.meshes)
           /\ \A i \in 1..Len(S.meshes) :
                /\ i \in 1..Len(S.settleData)
                /\ frame'.quats[i] = S.settleData[i].to]_vars
  /\ [][(S.phase = "settling" /\ S'.phase = "spinning")
        => (~props.isRolling /\ props'.isRolling)]_vars
  /\ (S.phase = "settling") ~> (S.phase # "settling" \/ S.unmounted)

\* a settle of one die on the face of its result has ended in idle
SettleEndsSeen ==
  /\ S.phase = "idle" /\ S.scene
  /\ frame.phase = "settling" /\ frame.p = Unit
  /\ Len(S.meshes) = 1 /\ Len(S.settleData) = 1
  /\ S.settleData[1].got = "quat"
  /\ frame.quats = <<S.settleData[1].to>>

(***************************************************************************)
(* C16.  The phase and the lists of S.current                              *)
(***************************************************************************)
\* C16, as stated: in every reachable state of the component the phase is one
\* of idle, spinning, settling; the mesh list and the grid positions have the
\* same length, the number of results at the last rebuild; while settling the
\* settle data has exactly one entry per mesh; while spinning it is empty
ListsAgreeAlways ==
  /\ S.phase \in {"idle", "spinning", "settling"}
  /\ Len(S.meshes) = Len(S.gridPos)
  /\ Len(S.meshes) = S.count
  /\ S.phase = "settling" => Len(S.settleData) = Len(S.meshes)
  /\ S.phase = "spinning" => S.settleData = <<>>

\* C16, amended: the same in every reachable state in which the component is
\* mounted, where the number of results at the last rebuild is also the number
\* of results of the current props; in every state, mounted or not, the phase
\* is one of the three, the two lists have the same length and the settle data
\* is empty while spinning
ListsAgreeWhileMounted ==
  /\ S.phase \in {"idle", "spinning", "settling"}
  /\ Len(S.meshes) = Len(S.gridPos)
  /\ S.phase = "spinning" => S.settleData = <<>>
  /\ S.scene =>
       /\ Len(S.meshes) = S.count
       /\ S.count = Len(props.results)
       /\ S.phase = "settling" => Len(S.settleData) = Len(S.meshes)

\* a mounted component settling one die, after frames have run
ListsAgreeWhileMountedSeen ==
  /\ S.scene /\ S.phase = "settling"
  /\ Len(S.meshes) = 1 /\ Len(S.gridPos) = 1 /\ Len(S.settleData) = 1
  /\ S.count = 1 /\ S.settleStart > 0

(***************************************************************************)
(* C17.  The texture cache and the dice in the scene (SpecHost)            *)
(***************************************************************************)
\* C17: after any interleaving of builds and rebuilds of dice, calls of
\* getNumTexture and getDotTexture and calls of clearTextureCache, no face
\* label of a die that is still in a scene references a disposed texture
LabelsNotDisposed ==
  \A i \in 1..Len(host.children) :
    \A j \in 1..Len(host.children[i].labels) :
      host.children[i].labels[j] \notin disposed

(***************************************************************************)
(* C18.  The cleanup at unmount                                            *)
(***************************************************************************)
\* C18: while the component is mounted the one pending frame request is the
\* one whose id s.animId holds, so the cleanup cancels it; once the cleanup
\* has run no frame request is pending and no frame callback runs again,
\* every die mesh is out of the scene and disposed, the mesh list, the grid
\* positions and the scene reference are cleared, and an effect run against
\* that state builds nothing: no mesh, no texture
CleanupIsFinal ==
  /\ [](S.scene => host.pending = {S.animId})
  /\ [](S.unmounted =>
          /\ host.pending = {}
          /\ host.children = <<>> /\ host.undisposed = <<>>
          /\ S.meshes = <<>> /\ S.gridPos = <<>>
          /\ ~S.scene /\ S.animId = 0)
  /\ [][S.unmounted =>
          /\ frame' \in {frame, NoFrame} /\ now' = now
          /\ host' = host
          /\ S'.meshes = <<>> /\ S'.gridPos = <<>> /\ ~S'.scene
          /\ texCache' = texCache /\ made' = made]_vars

\* a component that showed a die and ran frames, after its cleanup
CleanupIsFinalSeen ==
  /\ S.unmounted
  /\ now > 0
  /\ S.count = 1 /\ Len(props.results) = 1
  /\ DOMAIN texCache # {}
=============================================================================
